---- MODULE Spec2Model ----
(***************************************************************************)
(* notebook_utils.py: enable_autosave_plots() patches                      *)
(* matplotlib.pyplot.show so that every shown figure is also saved as a    *)
(* PNG, and save_dataframe_preview() writes df.head(n) as CSV.             *)
(*                                                                         *)
(* The model keeps the file system the two helpers act on (directories,   *)
(* non-directory entries in the way, write permission, the files of the   *)
(* output directories), the process-wide plt.show (a stack of installed   *)
(* wrappers over the original function), the wall clock read by           *)
(* time.strftime, and one stack frame per thread that calls plt.show.     *)
(***************************************************************************)
EXTENDS Integers, Sequences, FiniteSets, TLC

VARIABLES
    posix,      \* TRUE: pathlib matches glob patterns case-sensitively
    dirs,       \* paths that exist as directories
    blockers,   \* paths that exist as non-directory entries
    readonly,   \* directories in which no entry may be created
    images,     \* files written by fig.savefig: [dir, name, data]
    tables,     \* files written by DataFrame.to_csv: [dir, name, data]
    foreign,    \* files of the output directories not written by this module
    now,        \* wall clock, in seconds
    plt_show,   \* matplotlib.pyplot.show: the wrappers installed over the original
    frame,      \* per thread: the running plt.show(...) call
    produced,   \* history: the successful fig.savefig calls, in order
    saves,      \* history: fig.savefig calls of all plt.show calls started
    hist,       \* history: what has happened to the output directories
    last        \* history: the outcome of the last completed entry point

vars == << posix, dirs, blockers, readonly, images, tables, foreign, now,
           plt_show, frame, produced, saves, hist, last >>

----------------------------------------------------------------------------
(* Bounds of the model *)

MaxTime == 1
MaxDepth == 2
MaxSaves == 2
MaxRows == 2
MaxRemovals == 1

----------------------------------------------------------------------------
(* Paths *)

Root == << >>
Results == << "results" >>
Out == << "out" >>

\* DEFAULT_VIS_DIR, DEFAULT_ARTIFACTS_DIR with the environment variables unset
DEFAULT_VIS_DIR == << "results", "visualizations" >>
DEFAULT_ARTIFACTS_DIR == << "results", "artifacts" >>

Parent(p) == SubSeq(p, 1, Len(p) - 1)

IsProperPrefix(q, p) == Len(q) < Len(p) /\ SubSeq(p, 1, Len(q)) = q

\* Path.is_dir()
IsDir(p, ds) == p \in ds

\* os.mkdir(p): the error it raises, or "none" and the directory is made.
\* A non-directory on the way is ENOTDIR, a missing parent ENOENT, an
\* existing entry EEXIST, a parent without write permission EACCES.
OsMkdir(p, ds) ==
    IF \E q \in blockers : IsProperPrefix(q, p)
      THEN [err |-> "NotADirectoryError", dirs |-> ds]
    ELSE IF p \in ds \/ p \in blockers
      THEN [err |-> "FileExistsError", dirs |-> ds]
    ELSE IF Parent(p) \notin ds
      THEN [err |-> "FileNotFoundError", dirs |-> ds]
    ELSE IF Parent(p) \in readonly
      THEN [err |-> "PermissionError", dirs |-> ds]
    ELSE [err |-> "none", dirs |-> ds \cup {p}]

\* Path.mkdir(parents=True, exist_ok=True)
RECURSIVE PathMkdir(_, _)
PathMkdir(p, ds) ==
    LET r == OsMkdir(p, ds) IN
    IF r.err = "none" THEN r
    ELSE IF r.err = "FileNotFoundError"
      THEN IF p = Root THEN r
           ELSE LET up == PathMkdir(Parent(p), ds) IN
                IF up.err # "none" THEN up
                ELSE LET again == OsMkdir(p, up.dirs) IN
                     IF again.err = "none" \/ IsDir(p, up.dirs)
                       THEN [err |-> "none", dirs |-> again.dirs]
                       ELSE again
    ELSE IF IsDir(p, ds) THEN [err |-> "none", dirs |-> ds]
    ELSE r

\* mkdir without exist_ok: an existing directory is an error
ensure_dir_strict(p) ==
    IF IsDir(p, dirs) THEN [err |-> "FileExistsError", dirs |-> dirs] ELSE PathMkdir(p, dirs)

\* _ensure_dir(p): p.mkdir(parents=True, exist_ok=True); return p
ensure_dir(p) == PathMkdir(p, dirs)

----------------------------------------------------------------------------
(* Inputs *)

Threads == {"t1", "t2"}
MainThread == "t1"

Prefixes == {"fig", "eda"}

\* output_dir: None, "" (falsy as well) or "out"
None == [given |-> FALSE, path |-> Root]
OutputDirArgs == {None, [given |-> TRUE, path |-> Root], [given |-> TRUE, path |-> Out]}

\* Python truth value of output_dir
Truthy(output_dir) == output_dir.given /\ output_dir.path # Root

\* output_dir or DEFAULT
OrDefault(output_dir, default) == IF Truthy(output_dir) THEN output_dir.path ELSE default

\* plt.show(*args, **kwargs) as user code calls it; keyword arguments are a
\* set of <<key, value>> pairs, at most one per key
ShowCalls ==
    { [args |-> << >>, kwargs |-> {}],
      [args |-> << "x" >>, kwargs |-> {<<"name_hint", "a">>, <<"block", "True">>}] }

\* enable_autosave_plots(prefix, output_dir) as user code calls it
EnableCalls == { [prefix |-> p, output_dir |-> d] : p \in Prefixes, d \in OutputDirArgs }
\* ... with the default prefix and output directory
EnableDefault == { c \in EnableCalls : c.prefix = "fig" /\ ~Truthy(c.output_dir) }

\* files of an output directory that this module did not write
ForeignNames == {"X.PNG", "old.png"}
Suffix(name) ==
    CASE name = "X.PNG" -> ".PNG"
      [] name = "old.png" -> ".png"
      [] OTHER -> ".txt"

\* str.lower() on a file suffix
Lower(s) == IF s = ".PNG" THEN ".png" ELSE s

\* DataFrames: their rows, in order (rows 2, 1, 2, ... of every length up to
\* MaxRows, and rows 1, 2, 1, ... of length MaxRows)
Datasets ==
    { [i \in 1..k |-> (i % 2) + 1] : k \in 0..MaxRows } \cup { [i \in 1..MaxRows |-> 2 - (i % 2)] }
HeadCounts == (-1)..MaxRows
TableNames == {"a", "b"}

----------------------------------------------------------------------------
(* File names *)

\* decimal digits of a natural number
RECURSIVE Digits(_)
Digits(i) == IF i < 10 THEN << i >> ELSE Append(Digits(i \div 10), i % 10)

\* f"{idx:02d}"
Format02d(idx) == LET d == Digits(idx) IN IF Len(d) < 2 THEN << 0 >> \o d ELSE d

\* f"{idx:02d}_{prefix}_{name_hint}_{ts}.png"
PlotName(idx, prefix, name_hint, ts) ==
    [idx |-> Format02d(idx), prefix |-> prefix, hint |-> name_hint, ts |-> ts,
     suffix |-> ".png"]

\* f"{name}_preview.csv"
PreviewName(name) == [stem |-> name, tail |-> "_preview", suffix |-> ".csv"]

\* str(out_csv)
PathStr(d, name) == [parts |-> d, base |-> name]

\* fnmatch of a file suffix against "*.png": pathlib compares case-sensitively
\* on POSIX and case-insensitively on Windows
MatchesPng(suffix) == IF posix THEN suffix = ".png" ELSE Lower(suffix) = ".png"

\* vis_dir.glob("*.png"): nothing when vis_dir is no directory
GlobPng(d) ==
    IF ~IsDir(d, dirs) THEN [img |-> {}, csv |-> {}, other |-> {}]
    ELSE [img |-> {f \in images : f.dir = d /\ MatchesPng(f.name.suffix)},
          csv |-> {f \in tables : f.dir = d /\ MatchesPng(f.name.suffix)},
          other |-> {f \in foreign : f.dir = d /\ MatchesPng(Suffix(f.name))}]

\* len(list(vis_dir.glob("*.png")))
CountPng(d) ==
    LET g == GlobPng(d) IN Cardinality(g.img) + Cardinality(g.csv) + Cardinality(g.other)

\* kwargs.pop("name_hint", "plot"): the value, and kwargs without the key
HintOf(kwargs) ==
    IF \E kv \in kwargs : kv[1] = "name_hint"
      THEN (CHOOSE kv \in kwargs : kv[1] = "name_hint")[2]
      ELSE "plot"
PopNameHint(kwargs) == {kv \in kwargs : kv[1] # "name_hint"}

\* a head that gives nothing when the frame has fewer than n rows
head_strict(df, n) == IF n <= Len(df) THEN SubSeq(df, 1, n) ELSE << >>

\* DataFrame.head(n): the first n rows, or all but the last -n when n < 0
df_head(df, n) ==
    IF n >= 0 THEN SubSeq(df, 1, IF n < Len(df) THEN n ELSE Len(df))
    ELSE SubSeq(df, 1, IF Len(df) + n > 0 THEN Len(df) + n ELSE 0)

\* DataFrame.to_csv(path, index=False): a header line and the rows, no index column
ToCsv(df) == [header |-> "columns", index |-> FALSE, rows |-> df]

\* the file a failed write leaves when it had opened the file already
Truncated == [header |-> "", index |-> FALSE, rows |-> << >>]

\* open(path, "w"): the directory exists and the entry may be created or exists
CanOpen(ds, fs, d, name) ==
    /\ IsDir(d, ds)
    /\ d \notin readonly \/ \E f \in fs : f.dir = d /\ f.name = name

\* opening for exclusive creation: an existing file is left as it is
WriteFileExclusive(fs, d, name, data) ==
    IF \E f \in fs : f.dir = d /\ f.name = name THEN fs
    ELSE fs \cup {[dir |-> d, name |-> name, data |-> data]}

\* writing a file replaces whatever was at its path
WriteFile(fs, d, name, data) ==
    {f \in fs : ~(f.dir = d /\ f.name = name)} \cup {[dir |-> d, name |-> name, data |-> data]}

----------------------------------------------------------------------------
(* State *)

Outcomes == {"saved", "failed", "truncated"}

IdleFrame ==
    [pc |-> "idle", level |-> 0, depth |-> 0, args |-> << >>, kwargs |-> {},
     callerArgs |-> << >>, callerKw |-> {}, idx |-> 0, ts |-> 0, hint |-> "",
     snap |-> 0, attempts |-> << >>]

\* the entries of directory d
Entries(d) ==
    [img |-> {f \in images : f.dir = d}, csv |-> {f \in tables : f.dir = d},
     other |-> {f \in foreign : f.dir = d}]
IsEmptyDir(d) == LET e == Entries(d) IN e.img = {} /\ e.csv = {} /\ e.other = {}

AllDirs == {Root, Results, DEFAULT_VIS_DIR, DEFAULT_ARTIFACTS_DIR, Out}
OutputDirs == {DEFAULT_VIS_DIR, DEFAULT_ARTIFACTS_DIR, Out}

\* The file system a plotting notebook starts in: nothing made yet, or every
\* output directory there from an earlier run, possibly without write
\* permission on the plot directory or with a file left in it.
InitPlots ==
    /\ dirs \in {{Root}, {Root, Results, DEFAULT_VIS_DIR}}
    /\ blockers = {}
    /\ readonly \in {{}} \cup {{d} : d \in dirs \cap {DEFAULT_VIS_DIR}}
    /\ foreign \in {{}} \cup {{[dir |-> DEFAULT_VIS_DIR, name |-> n]} :
                               n \in {m \in ForeignNames : DEFAULT_VIS_DIR \in dirs}}
    /\ posix \in IF foreign = {} THEN {TRUE} ELSE BOOLEAN
    /\ images = {}
    /\ tables = {}
    /\ now = 0

\* The file system a notebook that saves previews starts in.
InitTables ==
    /\ dirs \in {{Root}, {Root, Results, DEFAULT_ARTIFACTS_DIR}}
    /\ blockers = {}
    /\ readonly \in {{}} \cup {{d} : d \in dirs \cap {DEFAULT_ARTIFACTS_DIR}}
    /\ foreign = {}
    /\ posix = TRUE
    /\ images = {}
    /\ tables = {}
    /\ now = 0

\* Any file system: possibly a regular file where a directory is wanted, or a
\* directory without write permission.
InitWorld ==
    /\ dirs \in {{Root}, {Root, Results}, AllDirs}
    /\ blockers \in {{}, {Results}, {Out}}
    /\ blockers \cap dirs = {}
    /\ \A b \in blockers : \A d \in dirs : ~IsProperPrefix(b, d)
    /\ readonly \in {{}} \cup {{d} : d \in dirs}
    /\ foreign = {}
    /\ posix = TRUE
    /\ images = {}
    /\ tables = {}
    /\ now = 0

InitProgram ==
    /\ plt_show = << >>
    /\ frame = [t \in Threads |-> IdleFrame]
    /\ produced = << >>
    /\ saves = 0
    /\ hist = [removed |-> 0, failed |-> FALSE, emptyAtEnable |-> TRUE, ensured |-> {},
               installs |-> 0]
    /\ last = [op |-> "import"]

Init == InitPlots /\ InitProgram

----------------------------------------------------------------------------
(* enable_autosave_plots *)

\* the directory error caught like a save error
EnableEnsureCaught(output_dir) ==
    [err |-> "none", dirs |-> ensure_dir(OrDefault(output_dir, DEFAULT_VIS_DIR)).dirs]

\* vis_dir = _ensure_dir(output_dir or DEFAULT_VIS_DIR): the error, or the directories after
EnableEnsure(output_dir) == ensure_dir(OrDefault(output_dir, DEFAULT_VIS_DIR))

\* a wrapper that forgets the function installed before it
ReplaceWrapper(shown, prefix, d) == << [prefix |-> prefix, vis_dir |-> d] >>

\* orig_show = plt.show; plt.show = show_and_save: the closure holds prefix, vis_dir
\* and the function that was installed before it
InstallWrapper(shown, prefix, d) == Append(shown, [prefix |-> prefix, vis_dir |-> d])

enable_autosave_plots(t, prefix, output_dir) ==
    LET d == OrDefault(output_dir, DEFAULT_VIS_DIR)
        r == EnableEnsure(output_dir)
    IN  /\ frame[t].pc = "idle"
        /\ hist.installs < MaxDepth
        /\ dirs' = r.dirs
        /\ IF r.err # "none"
             THEN /\ last' = [op |-> "enable", raised |-> TRUE, err |-> r.err, dir |-> d,
                              existed |-> IsDir(d, dirs), made |-> r.dirs \ dirs]
                  /\ UNCHANGED << plt_show, hist >>
             ELSE /\ plt_show' = InstallWrapper(plt_show, prefix, d)
                  /\ hist' = [hist EXCEPT !.ensured = @ \cup {d},
                                          !.installs = @ + 1,
                                          !.emptyAtEnable = @ /\ IsEmptyDir(d)]
                  /\ last' = [op |-> "enable", raised |-> FALSE, err |-> "none", dir |-> d,
                              existed |-> IsDir(d, dirs), made |-> r.dirs \ dirs]
        /\ UNCHANGED << posix, blockers, readonly, images, tables, foreign, now, frame,
                        produced, saves >>

----------------------------------------------------------------------------
(* show_and_save *)

\* user code calls plt.show(*args, **kwargs) while a wrapper is installed
plt_show_call(t, args, kwargs) ==
    /\ frame[t].pc = "idle"
    /\ Len(plt_show) >= 1
    /\ saves + Len(plt_show) <= MaxSaves
    /\ saves' = saves + Len(plt_show)
    /\ frame' = [frame EXCEPT ![t] =
                   [IdleFrame EXCEPT !.pc = "count", !.level = Len(plt_show),
                                     !.depth = Len(plt_show), !.args = args,
                                     !.kwargs = kwargs, !.callerArgs = args,
                                     !.callerKw = kwargs]]
    /\ last' = [op |-> "call", thread |-> t]
    /\ UNCHANGED << posix, dirs, blockers, readonly, images, tables, foreign, now,
                    plt_show, produced, hist >>

\* a one-based index
IndexFromOne(d) == CountPng(d) + 1

\* a pattern that matches nothing
IndexZero(d) == 0

\* idx = len(list(vis_dir.glob("*.png"))), 0 when listing raises
IndexOf(d) == CountPng(d)

\* kwargs.get("name_hint", "plot") leaves the key in kwargs
ForwardedWithHint(kwargs) == kwargs

\* what orig_show receives as keyword arguments
ForwardedKwargs(kwargs) == PopNameHint(kwargs)

\* fig = plt.gcf(); ts = ...; idx = ...; name_hint = kwargs.pop(...); path = ...
show_and_save_count(t) ==
    LET f == frame[t]
        wr == plt_show[f.level]
    IN  /\ f.pc = "count"
        /\ frame' = [frame EXCEPT ![t] =
                       [f EXCEPT !.pc = "save", !.ts = now, !.idx = IndexOf(wr.vis_dir),
                                 !.hint = HintOf(f.kwargs),
                                 !.kwargs = ForwardedKwargs(f.kwargs),
                                 !.snap = Len(produced)]]
        /\ last' = [op |-> "count", thread |-> t, dir |-> wr.vis_dir,
                    idx |-> IndexOf(wr.vis_dir)]
        /\ UNCHANGED << posix, dirs, blockers, readonly, images, tables, foreign, now,
                        plt_show, produced, saves, hist >>

\* the wrapper that runs once this one has saved: return orig_show(*args, **kwargs)
NextLevel(level) == level - 1

\* try: fig.savefig(path, ...) except Exception: print(...); then orig_show is entered
show_and_save_savefig(t, outcome) ==
    LET f == frame[t]
        wr == plt_show[f.level]
        name == PlotName(f.idx, wr.prefix, f.hint, f.ts)
    IN  /\ f.pc = "save"
        /\ outcome \in Outcomes
        /\ outcome # "failed" => CanOpen(dirs, images, wr.vis_dir, name)
        /\ images' = CASE outcome = "saved" -> WriteFile(images, wr.vis_dir, name, "figure")
                       [] outcome = "truncated" -> WriteFile(images, wr.vis_dir, name, "")
                       [] OTHER -> images
        /\ produced' = IF outcome = "saved"
                         THEN Append(produced, [dir |-> wr.vis_dir, name |-> name,
                                                idx |-> f.idx, snap |-> f.snap,
                                                thread |-> t])
                         ELSE produced
        /\ hist' = [hist EXCEPT !.failed = @ \/ outcome # "saved"]
        /\ frame' = [frame EXCEPT ![t] =
                       [f EXCEPT !.pc = IF NextLevel(f.level) >= 1 THEN "count" ELSE "orig",
                                 !.level = NextLevel(f.level),
                                 !.attempts = Append(@, [level |-> f.level, hint |-> f.hint,
                                                         outcome |-> outcome])]]
        /\ last' = [op |-> "savefig", thread |-> t, dir |-> wr.vis_dir, name |-> name,
                    outcome |-> outcome]
        /\ UNCHANGED << posix, dirs, blockers, readonly, tables, foreign, now, plt_show,
                        saves >>

\* the value the original matplotlib show returns for a call
ShowResult(args, kwargs) == [shown |-> args, with |-> kwargs]

\* the original plt.show runs and its result is returned through every wrapper
orig_show(t) ==
    LET f == frame[t]
    IN  /\ f.pc = "orig"
        /\ frame' = [frame EXCEPT ![t] = IdleFrame]
        /\ last' = [op |-> "show", thread |-> t, depth |-> f.depth,
                    callerArgs |-> f.callerArgs, callerKw |-> f.callerKw,
                    origArgs |-> f.args, origKw |-> f.kwargs, origCalls |-> 1,
                    ret |-> ShowResult(f.args, f.kwargs), attempts |-> f.attempts]
        /\ UNCHANGED << posix, dirs, blockers, readonly, images, tables, foreign, now,
                        plt_show, produced, saves, hist >>

----------------------------------------------------------------------------
(* save_dataframe_preview *)

\* art_dir = _ensure_dir(output_dir or DEFAULT_ARTIFACTS_DIR)
PreviewEnsure(output_dir) == ensure_dir(OrDefault(output_dir, DEFAULT_ARTIFACTS_DIR))

\* df.head(n).to_csv(out_csv, index=False)
PreviewData(df, n) == ToCsv(df_head(df, n))

\* a path only when the write succeeded
PreviewReturnIfSaved(d, name, outcome) ==
    IF outcome = "saved" THEN PathStr(d, PreviewName(name)) ELSE PathStr(Root, PreviewName(""))

\* return str(out_csv)
PreviewReturn(d, name, outcome) == PathStr(d, PreviewName(name))

save_dataframe_preview(t, df, name, n, output_dir, outcome) ==
    LET d == OrDefault(output_dir, DEFAULT_ARTIFACTS_DIR)
        r == PreviewEnsure(output_dir)
        out_csv == PreviewName(name)
    IN  /\ frame[t].pc = "idle"
        /\ outcome \in Outcomes
        /\ dirs' = r.dirs
        /\ IF r.err # "none"
             THEN /\ outcome = "failed"
                  /\ last' = [op |-> "preview", raised |-> TRUE, err |-> r.err, dir |-> d,
                              existed |-> IsDir(d, dirs), made |-> r.dirs \ dirs]
                  /\ UNCHANGED << tables, hist >>
             ELSE /\ outcome # "failed" => CanOpen(r.dirs, tables, d, out_csv)
                  /\ tables' =
                        CASE outcome = "saved" -> WriteFile(tables, d, out_csv, PreviewData(df, n))
                          [] outcome = "truncated" -> WriteFile(tables, d, out_csv, Truncated)
                          [] OTHER -> tables
                  /\ hist' = [hist EXCEPT !.ensured = @ \cup {d}]
                  /\ last' = [op |-> "preview", raised |-> FALSE, err |-> "none", dir |-> d,
                              existed |-> IsDir(d, dirs), made |-> r.dirs \ dirs,
                              name |-> name, df |-> df, n |-> n, outcome |-> outcome,
                              again |-> \E f \in tables : f.dir = d /\ f.name = out_csv,
                              before |-> Cardinality({f \in tables : f.dir = d}),
                              ret |-> PreviewReturn(d, name, outcome)]
        /\ UNCHANGED << posix, blockers, readonly, images, foreign, now, plt_show, frame,
                        produced, saves >>

----------------------------------------------------------------------------
(* Environment *)

\* a second of wall-clock time passes
Tick ==
    /\ now < MaxTime
    /\ now' = now + 1
    /\ UNCHANGED << posix, dirs, blockers, readonly, images, tables, foreign, plt_show,
                    frame, produced, saves, hist, last >>

\* the user deletes one file of an output directory
RemoveFile ==
    /\ \/ \E f \in images : images' = images \ {f} /\ UNCHANGED tables
       \/ \E f \in tables : tables' = tables \ {f} /\ UNCHANGED images
    /\ hist.removed < MaxRemovals
    /\ hist' = [hist EXCEPT !.removed = @ + 1]
    /\ last' = [op |-> "remove"]
    /\ UNCHANGED << posix, dirs, blockers, readonly, foreign, now, plt_show, frame,
                    produced, saves >>

\* the user deletes an output directory with everything in it
RemoveDir(d) ==
    /\ d \in dirs \cap OutputDirs
    /\ dirs' = dirs \ {d}
    /\ readonly' = readonly \ {d}
    /\ images' = {f \in images : f.dir # d}
    /\ tables' = {f \in tables : f.dir # d}
    /\ foreign' = {f \in foreign : f.dir # d}
    /\ hist.removed < MaxRemovals
    /\ hist' = [hist EXCEPT !.removed = @ + 1]
    /\ last' = [op |-> "rmtree"]
    /\ UNCHANGED << posix, blockers, now, plt_show, frame, produced, saves >>

----------------------------------------------------------------------------
(* Specifications *)

\* one notebook thread that plots
Next ==
    \/ \E c \in EnableDefault : enable_autosave_plots(MainThread, c.prefix, c.output_dir)
    \/ \E c \in ShowCalls : plt_show_call(MainThread, c.args, c.kwargs)
    \/ show_and_save_count(MainThread)
    \/ \E outcome \in Outcomes : show_and_save_savefig(MainThread, outcome)
    \/ orig_show(MainThread)
    \/ Tick
    \/ RemoveFile
    \/ RemoveDir(DEFAULT_VIS_DIR)

Spec == Init /\ [][Next]_vars

\* one notebook thread that saves previews
PreviewCalls ==
    { [df |-> df, name |-> name, n |-> n, output_dir |-> od] :
        df \in Datasets, name \in TableNames, n \in HeadCounts, od \in OutputDirArgs }
\* ... into the default directory
PreviewDefault == { c \in PreviewCalls : ~c.output_dir.given }
\* ... of one table
PreviewOne == { c \in PreviewCalls : c.df = << 2 >> /\ c.name = "a" /\ c.n = 1 }

InitT == InitTables /\ InitProgram

NextTables ==
    \/ \E c \in PreviewDefault, outcome \in Outcomes :
          save_dataframe_preview(MainThread, c.df, c.name, c.n, c.output_dir, outcome)
    \/ RemoveFile
    \/ RemoveDir(DEFAULT_ARTIFACTS_DIR)

SpecTables == InitT /\ [][NextTables]_vars

\* one notebook thread that uses both helpers, on any file system
InitD == InitWorld /\ InitProgram

EnableFig == { c \in EnableCalls : c.prefix = "fig" }
ShowPlain == { c \in ShowCalls : c.args = << >> }
Completed == {"saved", "failed"}

NextDirs ==
    \/ \E c \in EnableFig : enable_autosave_plots(MainThread, c.prefix, c.output_dir)
    \/ \E c \in ShowPlain : plt_show_call(MainThread, c.args, c.kwargs)
    \/ show_and_save_count(MainThread)
    \/ \E outcome \in Completed : show_and_save_savefig(MainThread, outcome)
    \/ orig_show(MainThread)
    \/ \E c \in PreviewOne, outcome \in Completed :
          save_dataframe_preview(MainThread, c.df, c.name, c.n, c.output_dir, outcome)
    \/ \E d \in OutputDirs : RemoveDir(d)

SpecDirs == InitD /\ [][NextDirs]_vars

\* two threads that plot into the same directory
InitR ==
    /\ InitPlots
    /\ readonly = {}
    /\ foreign # {} => posix
    /\ InitProgram

EnableRace == { c \in EnableCalls : ~c.output_dir.given }

NextRace ==
    \/ \E c \in EnableRace : enable_autosave_plots(MainThread, c.prefix, c.output_dir)
    \/ \E t \in Threads, c \in ShowCalls : plt_show_call(t, c.args, c.kwargs)
    \/ \E t \in Threads : show_and_save_count(t)
    \/ \E t \in Threads, outcome \in Completed : show_and_save_savefig(t, outcome)
    \/ \E t \in Threads : orig_show(t)
    \/ Tick

SpecRace == InitR /\ [][NextRace]_vars

----------------------------------------------------------------------------
(* Properties of the plot wrapper, one thread *)

\* the keyword arguments of a call other than name_hint
WithoutNameHint(kwargs) == {kv \in kwargs : kv[1] # "name_hint"}

\* the number a string of decimal digits denotes
RECURSIVE ParseInt(_)
ParseInt(d) == IF d = << >> THEN 0 ELSE 10 * ParseInt(SubSeq(d, 1, Len(d) - 1)) + d[Len(d)]

\* C1: after one enable_autosave_plots call into an empty directory, with no
\* deletion and every save succeeding, the index in the k-th produced file
\* name (k from 0) is k.
C1_IndicesInCallOrder ==
    (hist.installs = 1 /\ hist.emptyAtEnable /\ hist.removed = 0 /\ ~hist.failed)
        => \A k \in 1..Len(produced) : ParseInt(produced[k].name.idx) = k - 1

C1_Witness ==
    /\ hist.installs = 1 /\ hist.emptyAtEnable /\ hist.removed = 0 /\ ~hist.failed
    /\ Len(produced) = MaxSaves
    /\ produced[Len(produced)].name.idx = Format02d(MaxSaves - 1)

\* C2: a completed call of the installed show function has called the original
\* show once, with the caller's positional arguments and the caller's keyword
\* arguments without name_hint, and has returned the original's result,
\* whatever the outcome of the listing and of the saves.
C2_ForwardsToOriginal ==
    last.op = "show" =>
        /\ last.origCalls = 1
        /\ last.origArgs = last.callerArgs
        /\ last.origKw = WithoutNameHint(last.callerKw)
        /\ \A kv \in last.origKw : kv[1] # "name_hint"
        /\ last.ret = ShowResult(last.callerArgs, WithoutNameHint(last.callerKw))

C2_Witness ==
    /\ last.op = "show"
    /\ \E kv \in last.callerKw : kv[1] = "name_hint"
    /\ last.callerArgs # << >>
    /\ \E i \in 1..Len(last.attempts) : last.attempts[i].outcome = "failed"
    /\ ~IsDir(DEFAULT_VIS_DIR, dirs)

\* C8: after k successful enable_autosave_plots calls one call of the installed
\* show function makes k save attempts, outermost wrapper first, and calls the
\* original show once; the outermost wrapper uses the caller's name_hint, the
\* inner ones "plot".
C8_WrappersNest ==
    /\ Len(plt_show) = hist.installs
    /\ last.op = "show" =>
          /\ last.depth = hist.installs
          /\ Len(last.attempts) = hist.installs
          /\ \A i \in 1..Len(last.attempts) :
                /\ last.attempts[i].level = hist.installs - i + 1
                /\ last.attempts[i].hint = IF i = 1 THEN HintOf(last.callerKw) ELSE "plot"
          /\ last.origCalls = 1

C8_Witness ==
    /\ last.op = "show"
    /\ hist.installs = 2
    /\ Len(last.attempts) = 2
    /\ last.attempts[1].hint = "a"
    /\ last.attempts[2].hint = "plot"

\* the entries of d whose suffix is ".png" when compared without regard to case
PngAnyCase(d) ==
    Cardinality({f \in images : f.dir = d /\ Lower(f.name.suffix) = ".png"})
      + Cardinality({f \in foreign : f.dir = d /\ Lower(Suffix(f.name)) = ".png"})

\* C9: the index a wrapped show call computes is the number of files of the
\* output directory whose name ends in .png compared case-insensitively, and 0
\* when the directory cannot be listed.
C9_CountsAnyCase ==
    last.op = "count" =>
        last.idx = IF IsDir(last.dir, dirs) THEN PngAnyCase(last.dir) ELSE 0

----------------------------------------------------------------------------
(* Properties of the table preview *)

\* the first m rows of df, in their order
FirstRows(df, m) == [i \in 1..(IF m < Len(df) THEN m ELSE Len(df)) |-> df[i]]

\* the files at the path the last save_dataframe_preview call wrote to
LastPreviewFiles == {f \in tables : f.dir = last.dir /\ f.name.stem = last.name}

C5_FirstRowsWritten ==
    (last.op = "preview" /\ ~last.raised /\ last.outcome = "saved" /\ last.n >= 0) =>
        \E f \in LastPreviewFiles :
            /\ f.data.rows = FirstRows(last.df, last.n)
            /\ Len(f.data.rows) = IF last.n < Len(last.df) THEN last.n ELSE Len(last.df)
            /\ Len(last.df) < last.n => f.data.rows = last.df
            /\ ~f.data.index

C5_Witness ==
    /\ last.op = "preview" /\ ~last.raised /\ last.outcome = "saved"
    /\ Len(last.df) = MaxRows - 1 /\ last.n = MaxRows
    /\ \E f \in LastPreviewFiles : f.data.rows = last.df

----------------------------------------------------------------------------
(* Properties of the output directories *)

\* C3: when the output directory can be ensured save_dataframe_preview raises
\* nothing and returns <output_dir>/<name>_preview.csv, whether or not the
\* write succeeded.
C3_ReturnsPathAlways ==
    last.op = "preview" =>
        /\ last.raised => ~IsDir(last.dir, dirs)
        /\ ~last.raised =>
              last.ret = [parts |-> last.dir,
                          base |-> [stem |-> last.name, tail |-> "_preview",
                                    suffix |-> ".csv"]]

C3_Witness ==
    /\ last.op = "preview" /\ ~last.raised /\ last.outcome = "failed"
    /\ last.ret = [parts |-> << "out" >>,
                   base |-> [stem |-> "a", tail |-> "_preview", suffix |-> ".csv"]]

\* d and the directories above it
Upward(d) == { SubSeq(d, 1, k) : k \in 0..Len(d) }

\* C6: every file written by the wrapper or by save_dataframe_preview lies in
\* a directory that an entry point has ensured and that exists with all its
\* parents; ensuring an existing directory raises nothing and makes nothing,
\* ensuring a missing one makes it and its missing parents.
C6_DirectoryEnsuredBeforeWrite ==
    /\ \A f \in images : f.dir \in hist.ensured /\ Upward(f.dir) \subseteq dirs
    /\ \A f \in tables : f.dir \in hist.ensured /\ Upward(f.dir) \subseteq dirs
    /\ last.op \in {"enable", "preview"} =>
          /\ last.existed => ~last.raised /\ last.made = {}
          /\ ~last.raised =>
                /\ Upward(last.dir) \subseteq dirs
                /\ last.made \subseteq Upward(last.dir)
                /\ ~last.existed => last.dir \in last.made

C6_Witness ==
    /\ last.op = "preview" /\ ~last.raised /\ last.existed /\ last.outcome = "saved"
    /\ last.dir = DEFAULT_ARTIFACTS_DIR
    /\ \E f \in images : f.dir = DEFAULT_VIS_DIR
    /\ \E f \in tables : f.dir = DEFAULT_ARTIFACTS_DIR

\* some entry on the way to d, or d itself, is a non-directory
Blocked(d) == \E q \in blockers : q \in Upward(d)

\* d is missing and the deepest existing directory above it is write-protected
Denied(d) ==
    /\ d \notin dirs
    /\ \E q \in Upward(d) \cap dirs \cap readonly :
          \A q2 \in Upward(d) \cap dirs : Len(q2) <= Len(q)

\* C7: when the output directory cannot be made (a non-directory in the way,
\* or no permission) the entry point raises the error, enable_autosave_plots
\* leaves plt.show as it was, and save_dataframe_preview writes no file and
\* returns no path.
C7_DirectoryErrorsPropagate ==
    [][ (last'.op \in {"enable", "preview"} /\ (Blocked(last'.dir) \/ Denied(last'.dir))) =>
           /\ last'.raised
           /\ last'.err \in {"NotADirectoryError", "FileExistsError", "PermissionError"}
           /\ plt_show' = plt_show
           /\ images' = images /\ tables' = tables
           /\ "ret" \notin DOMAIN last' ]_vars

C7_Witness ==
    /\ last.op = "enable" /\ last.raised /\ last.err = "PermissionError"
    /\ last.dir = Out
    /\ Len(plt_show) = 1
    /\ tables # {}

----------------------------------------------------------------------------
(* Two threads *)

\* the successful saves into directory d, as positions of the history
SavesInto(d) == {k \in 1..Len(produced) : produced[k].dir = d}

\* the complete image files of directory d
FiguresIn(d) == {f \in images : f.dir = d /\ f.data = "figure"}

\* C10: two threads can compute the same index. Two successful saves into the
\* same directory, empty at first and with nothing deleted, share an index
\* only when the later one listed the directory before the earlier one wrote;
\* when prefix, name_hint and timestamp coincide as well they wrote one file
\* name, and the directory holds fewer image files than there were saves.
C10_SameIndexOnlyByRace ==
    (hist.emptyAtEnable /\ hist.removed = 0) =>
        \A i, j \in 1..Len(produced) :
            (i < j /\ produced[i].dir = produced[j].dir
                   /\ produced[i].idx = produced[j].idx) =>
                /\ produced[j].snap < i
                /\ (produced[i].name.prefix = produced[j].name.prefix
                      /\ produced[i].name.hint = produced[j].name.hint
                      /\ produced[i].name.ts = produced[j].name.ts) =>
                        /\ produced[i].name = produced[j].name
                        /\ Cardinality(FiguresIn(produced[i].dir))
                              < Cardinality(SavesInto(produced[i].dir))

C10_Witness ==
    /\ hist.emptyAtEnable /\ hist.removed = 0
    /\ \E i, j \in 1..Len(produced) :
          /\ i < j
          /\ produced[i].thread # produced[j].thread
          /\ produced[i].dir = produced[j].dir
          /\ produced[i].name = produced[j].name
          /\ Cardinality(FiguresIn(produced[i].dir)) = 1
          /\ Cardinality(SavesInto(produced[i].dir)) = 2

====
